---------------------------- MODULE Spec2Model ----------------------------
(***************************************************************************)
(* Response orchestration of oobabot's DiscordBot (discord_bot.py).        *)
(*                                                                         *)
(* One asyncio event loop runs, per inbound message m, the handler         *)
(* on_message(m), the text-reply task send_response_in_channel(m) it       *)
(* spawns, and the image task the image generator hands back.  Scheduling  *)
(* is cooperative: every action below is the code that runs between two    *)
(* suspension points (awaits that reach the network or another task).      *)
(*                                                                         *)
(* The collaborators of the bot (decision gate, prompt generator, text     *)
(* generation client, image generator, repetition tracker, stats           *)
(* collector, the platform) are recorded by the calls made on them, kept   *)
(* per inbound message.  Each of their calls named by the specification    *)
(* as a step that can fail may raise.                                      *)
(***************************************************************************)
EXTENDS Integers, Sequences, FiniteSets

\* Longest fragment stream the generation client produces for one prompt.
MaxFrags == 3

\* Most messages a channel holds when its history is read.
MaxHist == 3

\* Largest configured prompt_generator.history_lines.
MaxLines == 3

\* Inbound message events.
Msgs == {1, 2}

VARIABLES
    cfg,               \* DiscordBot configuration fixed by __init__
    inbox,             \* channel classes the platform delivers messages from
    quota,             \* message events the platform still dispatches
    raw,               \* raw_message of each event
    message,           \* the normalized message (shape, channel_id)
    gate,              \* what should_reply_to_message returned
    pc,                \* where on_message stands
    exit,              \* how on_message ended
    herr,              \* the step of on_message that raised
    image_prompt,      \* image_prompt is not None
    response_channel,  \* the channel send_response resolved
    typing,            \* the typing indicator scope of the origin channel
    threads,           \* raw_message.create_thread calls that completed
    rewrites,          \* assignments to message.channel_id
    mentions,          \* channel ids handed to decide_to_respond.log_mention
    task,              \* the text-reply task (send_response_in_channel)
    image,             \* the image task
    gen,               \* the generator of the text client: stream and position
    throttle,          \* keys of repetition_tracker.get_throttle_message_id
    sent,              \* messages sent with response_channel.send
    tracker,           \* repetition_tracker.log_message calls
    stats,             \* calls on the stats collector and its handle
    aiter,             \* history assembler: what channel.history yields
    limit,             \* history assembler: its limit argument
    items,             \* history assembler: its counter
    last_returned,     \* history assembler: position of the last item, 0 if None
    assembled,         \* history assembler: what it has yielded so far
    hpc                \* history assembler: where it stands

vars == <<cfg, inbox, quota, raw, message, gate, pc, exit, herr, image_prompt,
          response_channel, typing, threads, rewrites, mentions, task, image,
          gen, throttle, sent, tracker, stats,
          aiter, limit, items, last_returned, assembled, hpc>>

historyVars == <<aiter, limit, items, last_returned, assembled, hpc>>
platformVars == <<cfg, inbox, historyVars>>
handlerVars == <<quota, raw, message, gate, pc, exit, herr, image_prompt,
                 response_channel, typing, threads, rewrites, mentions>>
textVars == <<gen, throttle, sent, tracker, stats>>

---------------------------------------------------------------------------
(* Data                                                                    *)

\* The channel classes discord_message_to_generic_message tells apart.
ChannelTypes == {"DMChannel", "TextChannel", "GroupChannel", "Thread", "Other"}

\* A message carrying no channel association has no channel id.
NullId == 0

\* raw_message.channel.id: one channel of each class.
ChannelId(chan) ==
    CASE chan = "DMChannel" -> 1
      [] chan = "TextChannel" -> 2
      [] chan = "GroupChannel" -> 3
      [] chan = "Thread" -> 4
      [] OTHER -> 5

\* The id of the thread create_thread opens for message m.
ThreadId(m) == 10 + m

\* Raw messages.  author-is-Member and the author's create_public_threads
\* permission are read for a TextChannel only (and the permission for a
\* Member only), so they are left FALSE wherever the code never reads them.
RawMessages ==
    {r \in [chan : ChannelTypes, member : BOOLEAN, perms : BOOLEAN] :
        /\ r.chan # "TextChannel" => ~r.member
        /\ ~r.member => ~r.perms}

NoRaw == [chan |-> "Other", member |-> FALSE, perms |-> FALSE]

\* discord_message_to_generic_message: the shape and the channel id.
discord_message_to_generic_message(r) ==
    IF r.chan = "DMChannel"
    THEN [shape |-> "DirectMessage", channel_id |-> NullId]
    ELSE IF r.chan \in {"TextChannel", "GroupChannel", "Thread"}
    THEN [shape |-> "ChannelMessage", channel_id |-> ChannelId(r.chan)]
    ELSE [shape |-> "GenericMessage", channel_id |-> NullId]

\* Fragment classes of the generated text: equal to the bot prompt line,
\* some other line ending in " says:", any other text.  Whether the
\* configured bot prompt line itself ends in " says:" is configuration.
Fragments == {"marker", "says", "text"}

Configs ==
    [reply_in_thread : BOOLEAN, image_generator : BOOLEAN,
     dont_split_responses : BOOLEAN, marker_says : BOOLEAN]

\* What the generation client streams for one prompt: request_as_string
\* yields the response as one string, request_by_sentence sentence by
\* sentence.
Responses(whole) ==
    UNION {[1..k -> Fragments] : k \in 0..(IF whole THEN 1 ELSE MaxFrags)}

\* self.prompt_generator.bot_prompt_line == sentence
IsBotPromptLine(f) == f = "marker"

\* sentence.endswith(" says:")
EndsWithSays(f) == f = "says" \/ (f = "marker" /\ cfg.marker_says)

NoChannel == [id |-> NullId, is_thread |-> FALSE]
OriginChannel(r) == [id |-> ChannelId(r.chan), is_thread |-> r.chan = "Thread"]
NewThread(m) == [id |-> ThreadId(m), is_thread |-> TRUE]

NoStats == [arrived |-> 0, parts |-> 0, success |-> 0, failure |-> 0,
            success_parts |-> 0]

TextSettled == {"succeeded", "failed", "raised"}
ImageSettled == {"done", "raised"}

---------------------------------------------------------------------------
(* Initial state: the bot is constructed and connected, nothing arrived.   *)

InitWith(n, c, box) ==
    /\ cfg = c
    /\ inbox = box
    /\ quota = n
    /\ raw = [m \in Msgs |-> NoRaw]
    /\ message = [m \in Msgs |-> discord_message_to_generic_message(NoRaw)]
    /\ gate = [m \in Msgs |-> [should_respond |-> FALSE, is_summon |-> FALSE]]
    /\ pc = [m \in Msgs |-> "idle"]
    /\ exit = [m \in Msgs |-> "none"]
    /\ herr = [m \in Msgs |-> "none"]
    /\ image_prompt = [m \in Msgs |-> FALSE]
    /\ response_channel = [m \in Msgs |-> NoChannel]
    /\ typing = [m \in Msgs |-> [open |-> FALSE, opens |-> 0]]
    /\ threads = [m \in Msgs |-> 0]
    /\ rewrites = [m \in Msgs |-> 0]
    /\ mentions = [m \in Msgs |-> <<>>]
    /\ task = [m \in Msgs |-> [pc |-> "none", err |-> "none"]]
    /\ image = [m \in Msgs |-> "none"]
    /\ gen = [m \in Msgs |-> [seq |-> <<>>, pos |-> 0]]
    /\ throttle = [m \in Msgs |-> <<>>]
    /\ sent = [m \in Msgs |-> <<>>]
    /\ tracker = [m \in Msgs |-> <<>>]
    /\ stats = [m \in Msgs |-> NoStats]

\* No history is being assembled.
NoHistory ==
    /\ aiter = <<>>
    /\ limit = 0
    /\ items = 0
    /\ last_returned = 0
    /\ assembled = <<>>
    /\ hpc = "off"

Init == NoHistory /\ \E c \in Configs : InitWith(1, c, ChannelTypes)

---------------------------------------------------------------------------
(* on_message: the handler of one inbound message                          *)

\* The typing scope once __aenter__ has returned.
Entered(ty) == [open |-> TRUE, opens |-> ty.opens + 1]

\* on_message ends: by a return, or in its except clause.  Leaving the
\* Mutation of Finish: on_message has no except clause, what raises inside
\* it leaves it as an exception.
Finish_Uncaught(m, how, step, ty) ==
    /\ pc' = [pc EXCEPT ![m] = "done"]
    /\ exit' = [exit EXCEPT ![m] = IF how = "caught" THEN "raised" ELSE how]
    /\ herr' = [herr EXCEPT ![m] = step]
    /\ typing' = [typing EXCEPT ![m] = [ty EXCEPT !.open = FALSE]]

\* Mutation of Finish: the typing scope is not released when on_message ends.
Finish_LeavesOpen(m, how, step, ty) ==
    /\ pc' = [pc EXCEPT ![m] = "done"]
    /\ exit' = [exit EXCEPT ![m] = how]
    /\ herr' = [herr EXCEPT ![m] = step]
    /\ typing' = [typing EXCEPT ![m] = ty]

\* async with block on any path releases the typing scope.
Finish(m, how, step, ty) ==
    /\ pc' = [pc EXCEPT ![m] = "done"]
    /\ exit' = [exit EXCEPT ![m] = how]
    /\ herr' = [herr EXCEPT ![m] = step]
    /\ typing' = [typing EXCEPT ![m] = [ty EXCEPT !.open = FALSE]]

\* on_message suspends at its next await.
Proceed(m, next, ty) ==
    /\ pc' = [pc EXCEPT ![m] = next]
    /\ typing' = [typing EXCEPT ![m] = ty]
    /\ UNCHANGED <<exit, herr>>

\* Mutation of Responds: a summon is answered whatever the gate decided.
Responds_AnySummon(g) == g.should_respond \/ g.is_summon

\* on_message: the decision gate accepted the message.
Responds(g) == g.should_respond

\* send_response: a reply thread is wanted.
WantsThread(m) ==
    /\ cfg.reply_in_thread
    /\ raw[m].chan = "TextChannel"
    /\ raw[m].member

\* Mutation of CanCreateThread: any member may have a thread opened.
CanCreateThread_AnyMember(m) == raw[m].member

\* send_response: perms.create_public_threads
CanCreateThread(m) == raw[m].perms

\* Mutation of LogsMention: the message shape is not looked at.
LogsMention_AnyShape(m) == gate[m].is_summon

\* on_message: the mention is logged.
LogsMention(m) == gate[m].is_summon /\ message[m].shape = "ChannelMessage"

\* Mutation of RewritesChannel: the summon test is left out.
RewritesChannel_AnyMessage(m, rc) ==
    message[m].shape = "ChannelMessage" /\ rc.is_thread

\* on_message: the channel id is redirected to the response channel.
RewritesChannel(m, rc) == LogsMention(m) /\ rc.is_thread

\* on_message: an image task is started.
StartsImage(ip) == cfg.image_generator /\ ip

\* Mutation of ResponseTasksDone: the wait returns at the first task done.
ResponseTasksDone_First(m) ==
    \/ task[m].pc \in TextSettled
    \/ image[m] \in ImageSettled

\* asyncio.wait(response_tasks) returns: every task of the list is done.
ResponseTasksDone(m) ==
    /\ task[m].pc \in TextSettled
    /\ image[m] # "none" => image[m] \in ImageSettled

\* The event arrives: normalization and the decision gate, up to the await
\* that enters the typing scope.
on_message(m) ==
    /\ quota > 0
    /\ pc[m] = "idle"
    /\ \A k \in Msgs : k < m => pc[k] # "idle"
    /\ quota' = quota - 1
    /\ \E r \in {x \in RawMessages : x.chan \in inbox} :
        /\ raw' = [raw EXCEPT ![m] = r]
        /\ \/ \E step \in {"normalize", "gate"} :
                /\ message' = [message EXCEPT ![m] =
                       IF step = "gate"
                       THEN discord_message_to_generic_message(r) ELSE @]
                /\ Finish(m, "caught", step, typing[m])
                /\ UNCHANGED gate
           \/ \E g \in [should_respond : BOOLEAN, is_summon : BOOLEAN] :
                /\ message' = [message EXCEPT ![m] =
                       discord_message_to_generic_message(r)]
                /\ gate' = [gate EXCEPT ![m] = g]
                /\ IF Responds(g)
                   THEN Proceed(m, "typing", typing[m])
                   ELSE Finish(m, "rejected", "none", typing[m])
    /\ UNCHANGED <<image_prompt, response_channel, threads, rewrites, mentions,
                   task, image>>
    /\ UNCHANGED <<platformVars, textVars>>

\* Mutation of Reply: on_message suspends between the return of
\* send_response and the mention.
Reply_SuspendsBeforeMention(m, rc, ip, ty) ==
    /\ response_channel' = [response_channel EXCEPT ![m] = rc]
    /\ task' = [task EXCEPT ![m] = [pc |-> "spawned", err |-> "none"]]
    /\ Proceed(m, "mention", ty)
    /\ UNCHANGED <<message, rewrites, mentions>>

\* send_response creates the reply task and returns it with the channel;
\* on_message logs the mention and goes on to the image task or the join.
Reply(m, rc, ip, ty) ==
    /\ response_channel' = [response_channel EXCEPT ![m] = rc]
    /\ task' = [task EXCEPT ![m] = [pc |-> "spawned", err |-> "none"]]
    /\ message' = [message EXCEPT ![m] =
           IF RewritesChannel(m, rc) THEN [@ EXCEPT !.channel_id = rc.id] ELSE @]
    /\ rewrites' = [rewrites EXCEPT ![m] =
           IF RewritesChannel(m, rc) THEN @ + 1 ELSE @]
    /\ \/ /\ LogsMention(m)
          /\ Finish(m, "caught", "log_mention", ty)
          /\ UNCHANGED mentions
       \/ /\ mentions' = [mentions EXCEPT ![m] =
                 IF LogsMention(m)
                 THEN Append(@, IF RewritesChannel(m, rc)
                                THEN rc.id ELSE message[m].channel_id)
                 ELSE @]
          /\ Proceed(m, IF StartsImage(ip) THEN "image_start" ELSE "join", ty)

\* The typing scope is entered; the image prompt is asked for; send_response
\* runs up to create_thread, or declines, or spawns the reply at once.
TypingEntered(m) ==
    /\ pc[m] = "typing"
    /\ \/ /\ Finish(m, "caught", "typing", typing[m])
          /\ UNCHANGED <<image_prompt, response_channel, task, message,
                         rewrites, mentions>>
       \/ \E ip \in (IF cfg.image_generator THEN BOOLEAN ELSE {FALSE}) :
            /\ image_prompt' = [image_prompt EXCEPT ![m] = ip]
            /\ \/ /\ WantsThread(m)
                  /\ CanCreateThread(m)
                  /\ Proceed(m, "create_thread", Entered(typing[m]))
                  /\ UNCHANGED <<response_channel, task, message, rewrites,
                                 mentions>>
               \/ /\ WantsThread(m)
                  /\ ~CanCreateThread(m)
                  /\ Finish(m, "declined", "none", Entered(typing[m]))
                  /\ UNCHANGED <<response_channel, task, message, rewrites,
                                 mentions>>
               \/ /\ ~WantsThread(m)
                  /\ Reply(m, OriginChannel(raw[m]), ip, Entered(typing[m]))
    /\ UNCHANGED <<quota, raw, gate, threads, image>>
    /\ UNCHANGED <<platformVars, textVars>>

\* raw_message.create_thread returns or raises.
ThreadCreated(m) ==
    /\ pc[m] = "create_thread"
    /\ \/ /\ Finish(m, "caught", "create_thread", typing[m])
          /\ UNCHANGED <<threads, response_channel, task, message, rewrites,
                         mentions>>
       \/ /\ threads' = [threads EXCEPT ![m] = @ + 1]
          /\ Reply(m, NewThread(m), image_prompt[m], typing[m])
    /\ UNCHANGED <<quota, raw, gate, image_prompt, image>>
    /\ UNCHANGED <<platformVars, textVars>>

\* image_generator.generate_image returns the image task or raises.
ImageStarted(m) ==
    /\ pc[m] = "image_start"
    /\ \/ /\ Finish(m, "caught", "generate_image", typing[m])
          /\ UNCHANGED image
       \/ /\ image' = [image EXCEPT ![m] = "running"]
          /\ Proceed(m, "join", typing[m])
    /\ UNCHANGED <<quota, raw, message, gate, image_prompt, response_channel,
                   threads, rewrites, mentions, task>>
    /\ UNCHANGED <<platformVars, textVars>>

\* asyncio.wait returns; the handler leaves the typing scope and ends.
Joined(m) ==
    /\ pc[m] = "join"
    /\ ResponseTasksDone(m)
    /\ Finish(m, "joined", "none", typing[m])
    /\ UNCHANGED <<quota, raw, message, gate, image_prompt, response_channel,
                   threads, rewrites, mentions, task, image>>
    /\ UNCHANGED <<platformVars, textVars>>

---------------------------------------------------------------------------
(* send_response_in_channel: the text-reply task                           *)

\* The task ends by an exception nothing in it catches.
Raises(m, step) == task' = [task EXCEPT ![m] = [pc |-> "raised", err |-> step]]

\* Mutation of Fails: the except clause returns without reporting.
Fails_Unreported(m, step) ==
    /\ task' = [task EXCEPT ![m] = [pc |-> "failed", err |-> step]]
    /\ stats' = stats

\* The except clause of the streaming loop: log_response_failure, return.
Fails(m, step) ==
    /\ task' = [task EXCEPT ![m] = [pc |-> "failed", err |-> step]]
    /\ stats' = [stats EXCEPT ![m].failure = @ + 1]

\* Mutation of Verdict: a " says:" line is skipped like the bot prompt line.
Verdict_SaysSkipped(f) ==
    IF IsBotPromptLine(f) \/ EndsWithSays(f) THEN "continue" ELSE "send"

\* Mutation of Verdict: the bot prompt line ends the loop.
Verdict_MarkerBreaks(f) ==
    IF IsBotPromptLine(f) \/ EndsWithSays(f) THEN "break" ELSE "send"

\* Mutation of Verdict: the bot prompt line is not filtered out.
Verdict_MarkerSent(f) ==
    IF EndsWithSays(f) /\ ~IsBotPromptLine(f) THEN "break" ELSE "send"

\* What the loop body does with one sentence.
Verdict(f) ==
    IF IsBotPromptLine(f) THEN "continue"
    ELSE IF EndsWithSays(f) THEN "break"
    ELSE "send"

\* Mutation of TrackerKey: the tracker is keyed by the channel replied in.
TrackerKey_ResponseChannel(m) == response_channel[m].id

\* The key of every repetition tracker call: raw_message.channel.id
TrackerKey(m) == ChannelId(raw[m].chan)

\* The task starts: the history iterator is built (nothing is fetched yet),
\* the throttle id is looked up, prompt_generator.generate is awaited.
TaskStarted(m) ==
    /\ task[m].pc = "spawned"
    /\ throttle' = [throttle EXCEPT ![m] = Append(@, TrackerKey(m))]
    /\ task' = [task EXCEPT ![m].pc = "prompt"]
    /\ UNCHANGED <<gen, sent, tracker, stats, image>>
    /\ UNCHANGED <<platformVars, handlerVars>>

\* prompt_generator.generate returns (it reads the history) or raises;
\* the request is registered; the generator is made and its first
\* sentence awaited.
PromptReady(m) ==
    /\ task[m].pc = "prompt"
    /\ \/ /\ \E step \in {"history", "prompt", "log_request_arrived"} :
                Raises(m, step)
          /\ UNCHANGED <<gen, stats>>
       \/ /\ stats' = [stats EXCEPT ![m].arrived = @ + 1]
          /\ \E s \in Responses(cfg.dont_split_responses) :
                gen' = [gen EXCEPT ![m] = [seq |-> s, pos |-> 0]]
          /\ task' = [task EXCEPT ![m].pc = "stream"]
    /\ UNCHANGED <<throttle, sent, tracker, image>>
    /\ UNCHANGED <<platformVars, handlerVars>>

\* Mutation of Completes: leaving the loop is reported as a failure.
Completes_AsFailure(m) == Fails(m, "none")

\* After the loop: the completion log line, then log_response_success.
Completes(m) ==
    \/ /\ Raises(m, "write_to_log")
       /\ UNCHANGED stats
    \/ /\ task' = [task EXCEPT ![m].pc = "succeeded"]
       /\ stats' = [stats EXCEPT ![m].success = @ + 1,
                                 ![m].success_parts = stats[m].parts]

\* The generator raises while the next sentence is awaited.
StreamRaises(m) ==
    /\ task[m].pc = "stream"
    /\ Fails(m, "stream")
    /\ UNCHANGED <<gen, throttle, sent, tracker, image>>
    /\ UNCHANGED <<platformVars, handlerVars>>

\* The generator is exhausted.
StreamEnds(m) ==
    /\ task[m].pc = "stream"
    /\ gen[m].pos = Len(gen[m].seq)
    /\ Completes(m)
    /\ UNCHANGED <<gen, throttle, sent, tracker, image>>
    /\ UNCHANGED <<platformVars, handlerVars>>

\* The generator yields a sentence: it is skipped, or ends the loop, or is
\* handed to response_channel.send.
NextSentence(m) ==
    /\ task[m].pc = "stream"
    /\ gen[m].pos < Len(gen[m].seq)
    /\ gen' = [gen EXCEPT ![m].pos = @ + 1]
    /\ LET v == Verdict(gen[m].seq[gen[m].pos + 1]) IN
        \/ /\ v = "continue"
           /\ UNCHANGED <<task, stats>>
        \/ /\ v = "break"
           /\ Completes(m)
        \/ /\ v = "send"
           /\ task' = [task EXCEPT ![m].pc = "sending"]
           /\ UNCHANGED stats
    /\ UNCHANGED <<throttle, sent, tracker, image>>
    /\ UNCHANGED <<platformVars, handlerVars>>

\* Mutation of Sent: the reply is posted to the channel of the message.
Sent_ToOrigin(m) ==
    [chan |-> ChannelId(raw[m].chan), idx |-> gen[m].pos,
     frag |-> gen[m].seq[gen[m].pos]]

\* The message a completed send has posted.
Sent(m) ==
    [chan |-> response_channel[m].id, idx |-> gen[m].pos,
     frag |-> gen[m].seq[gen[m].pos]]

\* response_channel.send returns or raises; the sent message is logged to
\* the repetition tracker and counted as a response part.
SendDone(m) ==
    /\ task[m].pc = "sending"
    /\ \/ /\ sent' = [sent EXCEPT ![m] = Append(@, Sent(m))]
          /\ tracker' = [tracker EXCEPT ![m] =
                 Append(@, [key |-> TrackerKey(m), idx |-> gen[m].pos])]
          /\ stats' = [stats EXCEPT ![m].parts = @ + 1]
          /\ task' = [task EXCEPT ![m].pc = "stream"]
       \/ /\ Fails(m, "send")
          /\ UNCHANGED <<sent, tracker>>
       \/ /\ sent' = [sent EXCEPT ![m] = Append(@, Sent(m))]
          /\ Fails(m, "log_message")
          /\ UNCHANGED tracker
       \/ /\ sent' = [sent EXCEPT ![m] = Append(@, Sent(m))]
          /\ tracker' = [tracker EXCEPT ![m] =
                 Append(@, [key |-> TrackerKey(m), idx |-> gen[m].pos])]
          /\ Fails(m, "log_response_part")
    /\ UNCHANGED <<gen, throttle, image>>
    /\ UNCHANGED <<platformVars, handlerVars>>

\* The image task ends, normally or by raising.
ImageDone(m) ==
    /\ image[m] = "running"
    /\ \E how \in ImageSettled : image' = [image EXCEPT ![m] = how]
    /\ UNCHANGED task
    /\ UNCHANGED <<platformVars, handlerVars, textVars>>

---------------------------------------------------------------------------
(* history_plus_thread_kickoff_message: the history a prompt is built from *)

\* Message text: free of forbidden characters, holding some, and the
\* latter with each of them replaced by a space.
Contents == {"plain", "tabbed"}

sanitize_string(raw_string) ==
    IF raw_string = "tabbed" THEN "spaced" ELSE raw_string

\* What last_returned.reference can be: None, a reference whose resolved
\* is None, one resolved to a DeletedReferencedMessage, one resolved to a
\* discord.Message (the message a thread was started on, in the parent
\* text channel).
NoReference ==
    [kind |-> "none", id |-> NullId, chan |-> "Other", content |-> "plain"]

References ==
    {NoReference}
    \cup {[NoReference EXCEPT !.kind = k] : k \in {"unresolved", "deleted"}}
    \cup {[kind |-> "message", id |-> MaxHist + 1, chan |-> "TextChannel",
           content |-> c] : c \in Contents}

\* The n most recent messages of a thread, newest first.
HistoryStreams(n) ==
    {[i \in 1..n |-> [id |-> i, chan |-> "Thread", content |-> f[i].content,
                      reference |-> f[i].reference]] :
        f \in [1..n -> [content : Contents, reference : References]]}

\* discord_message_to_generic_message on a message of the history.
generic_args(raw_message) ==
    [message_id |-> raw_message.id,
     body_text |-> sanitize_string(raw_message.content),
     shape |-> discord_message_to_generic_message(raw_message).shape,
     channel_id |-> discord_message_to_generic_message(raw_message).channel_id]

\* Mutation of YieldsKickoff: the kickoff message is added at the limit too.
YieldsKickoff_AtLimit(lr, n, lim) ==
    /\ lr # 0
    /\ n <= lim
    /\ aiter[lr].reference.kind = "message"

\* The stream ended with room left and the last item is a reply to a
\* message that is still there.
YieldsKickoff(lr, n, lim) ==
    /\ lr # 0
    /\ n < lim
    /\ aiter[lr].reference.kind = "message"

\* Mutation of Kickoff: the reference of the newest message is followed.
Kickoff_OfNewest(lr) == aiter[1].reference

\* ref = last_returned.reference.resolved
Kickoff(lr) == aiter[lr].reference

\* recent_messages_following_thread: channel.history yields at most
\* history_lines messages and the assembler is given the same limit.
InitHistory ==
    /\ InitWith(0, [reply_in_thread |-> TRUE, image_generator |-> FALSE,
                    dont_split_responses |-> FALSE, marker_says |-> FALSE],
                {})
    /\ limit \in 1..MaxLines
    /\ \E n \in 0..MaxHist : n <= limit /\ aiter \in HistoryStreams(n)
    /\ items = 0
    /\ last_returned = 0
    /\ assembled = <<>>
    /\ hpc = "iterating"

\* async for item in aiter: last_returned = item; yield ...
HistoryYields ==
    /\ hpc = "iterating"
    /\ items < Len(aiter)
    /\ last_returned' = items + 1
    /\ assembled' = Append(assembled, generic_args(aiter[items + 1]))
    /\ hpc' = "yielded"
    /\ UNCHANGED <<aiter, limit, items>>
    /\ UNCHANGED <<cfg, inbox, handlerVars, task, image, textVars>>

\* The consumer asks for the next element: items += 1
HistoryResumes ==
    /\ hpc = "yielded"
    /\ items' = items + 1
    /\ hpc' = "iterating"
    /\ UNCHANGED <<aiter, limit, last_returned, assembled>>
    /\ UNCHANGED <<cfg, inbox, handlerVars, task, image, textVars>>

\* The stream is exhausted: the kickoff message is yielded, or nothing.
HistoryExhausted ==
    /\ hpc = "iterating"
    /\ items = Len(aiter)
    /\ assembled' = IF YieldsKickoff(last_returned, items, limit)
                    THEN Append(assembled, generic_args(Kickoff(last_returned)))
                    ELSE assembled
    /\ hpc' = "done"
    /\ UNCHANGED <<aiter, limit, items, last_returned>>
    /\ UNCHANGED <<cfg, inbox, handlerVars, task, image, textVars>>

NextHistory == HistoryYields \/ HistoryResumes \/ HistoryExhausted

\* The history assembler on every stream and limit within the bounds.
SpecHistory == InitHistory /\ [][NextHistory]_vars

---------------------------------------------------------------------------

Next ==
    \E m \in Msgs :
        \/ on_message(m)
        \/ TypingEntered(m)
        \/ ThreadCreated(m)
        \/ ImageStarted(m)
        \/ Joined(m)
        \/ TaskStarted(m)
        \/ PromptReady(m)
        \/ StreamRaises(m)
        \/ StreamEnds(m)
        \/ NextSentence(m)
        \/ SendDone(m)
        \/ ImageDone(m)

\* One inbound message, every configuration, every input.
Spec == Init /\ [][Next]_vars

\* Two inbound messages handled concurrently in one text channel, with
\* reply threads and an image generator, replies sent whole (one fragment
\* at most) to keep the interleavings enumerable.
InitConc ==
    /\ NoHistory
    /\ InitWith(2, [reply_in_thread |-> TRUE, image_generator |-> TRUE,
                    dont_split_responses |-> TRUE, marker_says |-> FALSE],
                {"TextChannel"})

SpecConc == InitConc /\ [][Next]_vars

---------------------------------------------------------------------------
(* Properties                                                              *)

Handled(m) == pc[m] = "done"
TextSpawned(m) == task[m].pc # "none"
ImageSpawned(m) == image[m] # "none"
TextRunning(m) == TextSpawned(m) /\ task[m].pc \notin TextSettled

\* A step of the text-reply task, of the image task.
TextStep(m) ==
    \/ TaskStarted(m) \/ PromptReady(m) \/ StreamRaises(m)
    \/ StreamEnds(m) \/ NextSentence(m) \/ SendDone(m)

\* C1: once the text-reply task has been spawned, on_message does not end
\* before that task has settled, and likewise for the image task, on every
\* path, also when log_mention or generate_image raises after the spawn.
C1_HandledOnlyAfterTasks ==
    \A m \in Msgs :
        Handled(m) =>
            /\ TextSpawned(m) => task[m].pc \in TextSettled
            /\ ImageSpawned(m) => image[m] \in ImageSettled

\* C2 (barrier): when both tasks were spawned for a message, on_message has
\* passed its join only if both have settled, whichever settled first and
\* however each ended.
C2_Barrier ==
    \A m \in Msgs :
        (exit[m] = "joined" /\ TextSpawned(m) /\ ImageSpawned(m)) =>
            /\ task[m].pc \in TextSettled
            /\ image[m] \in ImageSettled

\* C2 (no cancellation): the step in which one task ends by failing leaves
\* the other task as it was.
C2_FailureLeavesOther ==
    \A m \in Msgs :
        /\ (image[m] = "running" /\ image'[m] = "raised") => task'[m] = task[m]
        /\ (TextRunning(m) /\ task'[m].pc \in {"failed", "raised"})
              => image'[m] = image[m]

\* C2 (no cancellation): a task that has not settled can still take its own
\* next step after the other one failed.
C2_OtherStillRuns ==
    \A m \in Msgs :
        /\ (TextRunning(m) /\ image[m] = "raised") => ENABLED TextStep(m)
        /\ (image[m] = "running" /\ task[m].pc \in {"failed", "raised"})
              => ENABLED ImageDone(m)

\* C2: the completion barrier.  With a text-reply task and an image task
\* spawned for one message, on_message passes its join only when both have
\* settled, in every interleaving and whether or not either raised; one
\* task's failure neither changes nor stops the other.
C2_CompletionBarrier ==
    /\ [](C2_Barrier /\ C2_OtherStillRuns)
    /\ [][C2_FailureLeavesOther]_vars

\* The join was passed with the image task failed and the reply complete.
C2_Witness ==
    \E m \in Msgs :
        /\ exit[m] = "joined"
        /\ image[m] = "raised"
        /\ task[m].pc = "succeeded"
        /\ Len(sent[m]) >= 1

\* C3: once the text-reply task has ended, however it ended, exactly one of
\* log_response_success / log_response_failure has been called for the
\* message, exactly once.
C3_ExactlyOneReport ==
    \A m \in Msgs :
        task[m].pc \in TextSettled => stats[m].success + stats[m].failure = 1

\* A network error hit history fetch, thread creation, streaming or a send.
NetworkError(m) ==
    \/ herr[m] = "create_thread"
    \/ task[m].err \in {"history", "stream", "send"}

\* C4: a network error during history fetch, thread creation, generation
\* streaming or message send is caught and reported to the stats collector
\* as a response failure.
C4_TransportFailureReported ==
    \A m \in Msgs :
        NetworkError(m) =>
            /\ task[m].pc # "raised"
            /\ stats[m].failure = 1

\* Reply-in-thread is on, the message is in a text channel, its author is a
\* member without (with) the permission to create threads.
ThreadSetup(m, allowed) ==
    /\ pc[m] # "idle"
    /\ cfg.reply_in_thread
    /\ raw[m].chan = "TextChannel"
    /\ raw[m].member
    /\ raw[m].perms = allowed

\* C5: with reply-in-thread on, a text-channel message and a member author
\* without thread-create permission, send_response returns (None, None)
\* and nothing happens for that message: no thread, no message sent, no
\* task spawned, no mention logged, nothing recorded by the stats collector
\* or the repetition tracker.
C5_DeclinedIsSilent ==
    \A m \in Msgs :
        ThreadSetup(m, FALSE) =>
            /\ threads[m] = 0
            /\ sent[m] = <<>>
            /\ ~TextSpawned(m)
            /\ ~ImageSpawned(m)
            /\ mentions[m] = <<>>
            /\ rewrites[m] = 0
            /\ stats[m] = NoStats
            /\ tracker[m] = <<>>
            /\ throttle[m] = <<>>
            /\ response_channel[m] = NoChannel
            /\ pc[m] \in {"typing", "done"}
            /\ (Handled(m) /\ typing[m].opens = 1) =>
                   (exit[m] = "declined" /\ herr[m] = "none")

\* send_response declined a message of a member who may not create threads.
C5_Witness ==
    \E m \in Msgs :
        /\ ThreadSetup(m, FALSE)
        /\ gate[m].is_summon
        /\ image_prompt[m]
        /\ exit[m] = "declined"

\* C6: with reply-in-thread on, a text-channel message and a member author
\* with thread-create permission, one thread and no more is created for
\* the message, it exists before the reply task is spawned and so before
\* the first fragment is sent, and every fragment goes to that thread, none
\* to the origin channel.  For a direct message create_thread is never
\* called.
C6_ThreadBeforeReply ==
    \A m \in Msgs :
        /\ ThreadSetup(m, TRUE) =>
            /\ threads[m] <= 1
            /\ pc[m] = "create_thread" => (threads[m] = 0 /\ ~TextSpawned(m))
            /\ (TextSpawned(m) \/ exit[m] = "joined") => threads[m] = 1
            /\ sent[m] # <<>> => threads[m] = 1
            /\ \A i \in 1..Len(sent[m]) :
                  /\ sent[m][i].chan = ThreadId(m)
                  /\ sent[m][i].chan # ChannelId(raw[m].chan)
        /\ (pc[m] # "idle" /\ raw[m].chan = "DMChannel") =>
            /\ herr[m] # "normalize" => message[m].shape = "DirectMessage"
            /\ threads[m] = 0
            /\ pc[m] # "create_thread"
            /\ \A i \in 1..Len(sent[m]) : sent[m][i].chan = ChannelId("DMChannel")

\* Two fragments were sent to the one thread created for the message.
C6_Witness ==
    \E m \in Msgs :
        /\ ThreadSetup(m, TRUE)
        /\ threads[m] = 1
        /\ Len(sent[m]) >= 2
        /\ exit[m] = "joined"

\* The indices of S within 1..n, in ascending order.
RECURSIVE Ascending(_, _)
Ascending(S, n) ==
    IF n = 0 THEN <<>>
    ELSE IF n \in S THEN Append(Ascending(S, n - 1), n)
    ELSE Ascending(S, n - 1)

\* Which generated fragments were sent, and logged to the tracker, in order.
SentIdx(m) == [i \in 1..Len(sent[m]) |-> sent[m][i].idx]
TrackedIdx(m) == [i \in 1..Len(tracker[m]) |-> tracker[m][i].idx]

\* Nothing at or after position i of the stream was sent or logged.
NothingFrom(m, i) ==
    /\ \A j \in 1..Len(sent[m]) : sent[m][j].idx < i
    /\ \A j \in 1..Len(tracker[m]) : tracker[m][j].idx < i

\* Sent messages are never retracted: sent only grows at its end.
SentOnlyGrows ==
    \A m \in Msgs :
        /\ Len(sent'[m]) >= Len(sent[m])
        /\ SubSeq(sent'[m], 1, Len(sent[m])) = sent[m]

\* C7 as stated: a fragment ending in " says:" is never sent, nothing that
\* follows it in the stream is sent or logged to the repetition tracker,
\* and what was sent before it stays sent.
C7_SaysStopsEverything ==
    /\ [](\A m \in Msgs : \A i \in 1..Len(gen[m].seq) :
            EndsWithSays(gen[m].seq[i]) => NothingFrom(m, i))
    /\ [][SentOnlyGrows]_vars

\* C7 amended: a fragment ending in " says:" is never sent; if it is not
\* the bot prompt line itself, nothing that follows it in the stream is
\* sent or logged to the repetition tracker; what was sent before it stays
\* sent.  (A fragment equal to the bot prompt line is skipped by the first
\* rule even when that line ends in " says:", and the stream goes on.)
C7_ImpersonationAbort ==
    /\ [](\A m \in Msgs : \A i \in 1..Len(gen[m].seq) :
            EndsWithSays(gen[m].seq[i]) =>
                /\ \A j \in 1..Len(sent[m]) : sent[m][j].idx # i
                /\ \A j \in 1..Len(tracker[m]) : tracker[m][j].idx # i
                /\ ~IsBotPromptLine(gen[m].seq[i]) => NothingFrom(m, i))
    /\ [][SentOnlyGrows]_vars

\* The stream was cut at a " says:" fragment lying between two fragments of
\* text: the first was sent and stayed sent, the last never was.
C7_Witness ==
    \E m \in Msgs :
        /\ gen[m].seq = <<"text", "says", "text">>
        /\ gen[m].pos = 2
        /\ task[m].pc = "succeeded"
        /\ SentIdx(m) = <<1>>

\* The fragments of text at positions of S.
TextAt(seq, S) == {i \in S : seq[i] = "text"}

\* C8: a fragment equal to the bot prompt line is never sent, never logged
\* to the repetition tracker and never counted as a response part, and the
\* stream goes on after it: once the reply has completed, every fragment of
\* text with no fragment ending in " says:" before it has been sent.
C8_MarkerSkipped ==
    \A m \in Msgs :
        LET seq == gen[m].seq IN
        /\ \A i \in 1..Len(seq) :
              IsBotPromptLine(seq[i]) =>
                  /\ \A j \in 1..Len(sent[m]) : sent[m][j].idx # i
                  /\ \A j \in 1..Len(tracker[m]) : tracker[m][j].idx # i
        /\ stats[m].parts <= Cardinality(TextAt(seq, 1..gen[m].pos))
        /\ (task[m].pc = "stream" /\ gen[m].pos >= 1
               /\ IsBotPromptLine(seq[gen[m].pos])) =>
              (ENABLED NextSentence(m) \/ ENABLED StreamEnds(m))
        /\ task[m].pc = "succeeded" =>
              \A j \in 1..Len(seq) :
                  (seq[j] = "text" /\ \A k \in 1..j : ~EndsWithSays(seq[k]))
                      => \E i \in 1..Len(sent[m]) : sent[m][i].idx = j

\* A reply completed in which text that followed the bot prompt line was
\* sent.
C8_Witness ==
    \E m \in Msgs :
        /\ gen[m].seq = <<"text", "marker", "text">>
        /\ ~cfg.marker_says
        /\ task[m].pc = "succeeded"
        /\ SentIdx(m) = <<1, 3>>
        /\ stats[m].parts = 2

\* The loop of the reply task was left at a fragment ending in " says:".
AbortedAtSays(m) ==
    /\ gen[m].pos >= 1
    /\ EndsWithSays(gen[m].seq[gen[m].pos])
    /\ ~IsBotPromptLine(gen[m].seq[gen[m].pos])

AcceptedAsStated(seq) ==
    {i \in 1..Len(seq) :
        /\ ~IsBotPromptLine(seq[i])
        /\ \A k \in 1..i : ~EndsWithSays(seq[k])}

\* The positions accepted when only a fragment that ends in " says:"
\* without being the bot prompt line cuts the stream.
Accepted(seq) ==
    {i \in 1..Len(seq) :
        /\ ~IsBotPromptLine(seq[i])
        /\ \A k \in 1..i :
              ~(EndsWithSays(seq[k]) /\ ~IsBotPromptLine(seq[k]))}

\* An error-free reply sent exactly the positions of S, in order, once
\* each, logged each to the tracker in the same order, and reported one
\* success with as many parts.
RepliedExactly(m, S) ==
    /\ SentIdx(m) = Ascending(S, Len(gen[m].seq))
    /\ TrackedIdx(m) = SentIdx(m)
    /\ \A i \in 1..Len(sent[m]) : sent[m][i].frag = gen[m].seq[sent[m][i].idx]
    /\ stats[m].success = 1
    /\ stats[m].failure = 0
    /\ stats[m].success_parts = Len(sent[m])

\* C10 as stated: an error-free reply sends exactly the fragments that are
\* neither the bot prompt line nor at or after a fragment ending in
\* " says:", in order; the tracker gets one log_message per sent message in
\* that order; one success is reported with that many parts.
C10_SentIsAcceptedAsStated ==
    \A m \in Msgs :
        task[m].pc = "succeeded" =>
            RepliedExactly(m, AcceptedAsStated(gen[m].seq))

\* C10 amended: an error-free reply sends exactly the fragments that are
\* neither the bot prompt line nor at or after a fragment that ends in
\* " says:" without being the bot prompt line, in generation order, each
\* once; the tracker gets one log_message per sent message in that order;
\* one success is reported, with as many parts as messages sent.
C10_SentIsAccepted ==
    \A m \in Msgs :
        task[m].pc = "succeeded" => RepliedExactly(m, Accepted(gen[m].seq))

\* An error-free reply of two messages around a skipped bot prompt line
\* that itself ends in " says:".
C10_Witness ==
    \E m \in Msgs :
        /\ task[m].pc = "succeeded"
        /\ cfg.marker_says
        /\ gen[m].seq = <<"text", "marker", "text">>
        /\ SentIdx(m) = <<1, 3>>
        /\ TrackedIdx(m) = <<1, 3>>
        /\ stats[m].success_parts = 2

\* C11 -- A message the decision gate rejects leaves no trace: on_message
\* ends at once with the typing scope never opened, the image generator
\* never asked, no thread created, no response channel resolved, no task
\* spawned (so no history fetched, no prompt assembled, nothing sent), no
\* mention registered, no channel id rewritten, and nothing logged to the
\* stats collector or the repetition tracker.
C11_RejectedLeavesNoTrace ==
    \A m \in Msgs :
        (pc[m] # "idle" /\ herr[m] \notin {"normalize", "gate"}
            /\ ~gate[m].should_respond)
        => /\ Handled(m) /\ exit[m] = "rejected"
           /\ typing[m] = [open |-> FALSE, opens |-> 0]
           /\ ~image_prompt[m] /\ image[m] = "none"
           /\ threads[m] = 0 /\ response_channel[m] = NoChannel
           /\ task[m] = [pc |-> "none", err |-> "none"]
           /\ gen[m] = [seq |-> <<>>, pos |-> 0]
           /\ throttle[m] = <<>> /\ sent[m] = <<>> /\ tracker[m] = <<>>
           /\ mentions[m] = <<>> /\ rewrites[m] = 0
           /\ message[m] = discord_message_to_generic_message(raw[m])
           /\ stats[m] = NoStats

\* A rejected summon from a member who could have had a reply thread, with
\* an image generator configured: everything the claim rules out was possible.
C11_Witness ==
    \E m \in Msgs :
        /\ exit[m] = "rejected" /\ gate[m].is_summon
        /\ cfg.reply_in_thread /\ cfg.image_generator
        /\ raw[m].chan = "TextChannel" /\ raw[m].member /\ raw[m].perms

\* C12 -- While one message is handled its channel id is rewritten at most
\* once, and only when the message is a summon (a ChannelMessage) and the
\* resolved response channel is a thread: the id is then the thread's.  In
\* every other case the channel id keeps the value normalization gave it.
\* No step ever rewrites it a second time or undoes the rewrite.
C12_ChannelIdRewrite ==
    /\ [](\A m \in Msgs :
            (pc[m] # "idle" /\ herr[m] # "normalize")
            => /\ rewrites[m] <= 1
               /\ rewrites[m] = 1
                    => /\ gate[m].is_summon
                       /\ message[m].shape = "ChannelMessage"
                       /\ response_channel[m].is_thread
                       /\ message[m].channel_id = response_channel[m].id
               /\ rewrites[m] = 0
                    => message[m] = discord_message_to_generic_message(raw[m]))
    /\ [][\A m \in Msgs :
            /\ rewrites'[m] \in {rewrites[m], rewrites[m] + 1}
            /\ rewrites'[m] = rewrites[m] /\ pc[m] # "idle"
                 => message'[m] = message[m]]_vars

\* A summon answered in a new thread: the channel id was redirected from
\* the origin channel to the thread, once, and handling ran to its end.
C12_Witness ==
    \E m \in Msgs :
        /\ Handled(m) /\ exit[m] = "joined"
        /\ rewrites[m] = 1 /\ threads[m] = 1
        /\ message[m].channel_id = ThreadId(m)
        /\ message[m].channel_id
             # discord_message_to_generic_message(raw[m]).channel_id

\* The raw stream's output, normalized, in the stream's order.
RawOutput == [i \in 1..Len(aiter) |-> generic_args(aiter[i])]

\* The stream was not empty, ended below the budget, and its last (earliest)
\* message is a reply whose reference resolves to a concrete message.
KickoffCase ==
    /\ Len(aiter) > 0
    /\ Len(aiter) < limit
    /\ aiter[Len(aiter)].reference.kind = "message"

\* C13 -- History reconstruction.  In the kickoff case the assembled
\* sequence is the raw stream's output in the same order followed by
\* exactly one more element, the normalized referenced message; in every
\* other case (budget reached, no reference, unresolved or non-message
\* reference, empty stream) it is exactly the raw stream's output.
C13_HistoryReconstruction ==
    hpc = "done"
    => IF KickoffCase
       THEN /\ Len(assembled) = Len(aiter) + 1
            /\ SubSeq(assembled, 1, Len(aiter)) = RawOutput
            /\ assembled[Len(assembled)]
                 = [message_id |-> aiter[Len(aiter)].reference.id,
                    body_text |->
                        sanitize_string(aiter[Len(aiter)].reference.content),
                    shape |-> "ChannelMessage",
                    channel_id |-> ChannelId("TextChannel")]
       ELSE assembled = RawOutput

\* Two messages under a budget of three, the earlier one a reply to a
\* message whose text needed sanitizing, the newer one not a reply: the
\* kickoff message came out third, sanitized.
C13_Witness ==
    /\ hpc = "done"
    /\ Len(aiter) = 2 /\ limit = 3
    /\ aiter[1].reference.kind = "none"
    /\ aiter[2].reference.kind = "message"
    /\ aiter[2].reference.content = "tabbed"
    /\ Len(assembled) = 3
    /\ assembled[3].body_text = "spaced"

\* C17 -- History budget.  channel.history yields at most limit messages,
\* and at every moment the assembler has yielded at most limit elements in
\* all: the kickoff message is added only when strictly fewer than limit
\* messages came from the stream, so the result is never longer than the
\* raw stream by more than one element and never longer than limit.
C17_HistoryBudget ==
    hpc # "off"
    => /\ Len(aiter) <= limit
       /\ Len(assembled) <= limit
       /\ Len(assembled) <= Len(aiter) + 1
       /\ Len(assembled) = Len(aiter) + 1 => Len(aiter) < limit

\* The budget is met exactly by the kickoff message: one element short in
\* the stream, the last one a reply, limit elements assembled.
C17_Witness ==
    /\ hpc = "done"
    /\ Len(aiter) = limit - 1
    /\ Len(assembled) = limit
    /\ Len(aiter) >= 2

\* Everything recorded for one inbound message.
MsgState(m) ==
    <<raw[m], message[m], gate[m], pc[m], exit[m], herr[m], image_prompt[m],
      response_channel[m], typing[m], threads[m], rewrites[m], mentions[m],
      task[m], image[m], gen[m], throttle[m], sent[m], tracker[m], stats[m]>>

\* A step of on_message after the event arrived.
HandlerStep(m) ==
    TypingEntered(m) \/ ThreadCreated(m) \/ ImageStarted(m) \/ Joined(m)

\* Something raised while message m was handled.
Failed(m) ==
    \/ herr[m] # "none"
    \/ task[m].pc \in {"failed", "raised"}
    \/ image[m] = "raised"

\* C14 (nothing escapes): whatever raised inside on_message was caught
\* there, the handler ended normally with its typing scope released, and
\* the dispatch loop can still deliver the next event.
C14_NothingEscapes ==
    /\ \A m \in Msgs :
            herr[m] # "none"
            => Handled(m) /\ exit[m] = "caught" /\ ~typing[m].open
    /\ (quota > 0 /\ inbox # {}) => ENABLED (\E m \in Msgs : on_message(m))

\* C14 (no interference): a step taken for one message, failing or not,
\* leaves everything recorded for every other message as it was.
C14_StepsAreLocal ==
    \A a \in Msgs, b \in Msgs :
        (a # b /\ MsgState(a)' # MsgState(a)) => MsgState(b)' = MsgState(b)

\* C14 (no stop, no cancellation): whatever happened to the other messages,
\* a message in flight can take its own next step: its handler at every
\* await, its join once its own tasks have settled, its reply task and its
\* image task until they settle.
C14_OtherGoesOn ==
    \A b \in Msgs :
        /\ pc[b] \in {"typing", "create_thread", "image_start"}
             => ENABLED HandlerStep(b)
        /\ (pc[b] = "join" /\ ResponseTasksDone(b)) => ENABLED Joined(b)
        /\ TextRunning(b) => ENABLED TextStep(b)
        /\ image[b] = "running" => ENABLED ImageDone(b)

\* C14 (own outcome): how a reply task ended, and what it reported, follows
\* from what it hit itself: without an exception of its own it succeeded
\* and reported success once, with one inside its try block it reported
\* failure once.
C14_OwnOutcome ==
    \A b \in Msgs :
        task[b].pc \in TextSettled
        => /\ task[b].err = "none"
                => /\ task[b].pc = "succeeded"
                   /\ stats[b].success = 1 /\ stats[b].failure = 0
           /\ task[b].err \in {"stream", "send", "log_message",
                               "log_response_part"}
                => /\ task[b].pc = "failed"
                   /\ stats[b].success = 0 /\ stats[b].failure = 1

\* C14 -- Failure isolation between messages in flight.  No exception
\* escapes on_message into the dispatch loop, and a failure at any step of
\* one message's handling neither stops, cancels nor changes the handling
\* of another message, which goes on to its own success or failure report.
C14_FailureIsolation ==
    /\ [](C14_NothingEscapes /\ C14_OtherGoesOn /\ C14_OwnOutcome)
    /\ [][C14_StepsAreLocal]_vars

\* The first message is still at its join with its reply failed on a send,
\* while the second, dispatched after it, was answered in its own thread,
\* reported success and left on_message.
C14_Witness ==
    /\ pc[1] = "join"
    /\ task[1].pc = "failed" /\ task[1].err = "send"
    /\ stats[1].failure = 1
    /\ exit[2] = "joined"
    /\ task[2].pc = "succeeded"
    /\ Len(sent[2]) = 1
    /\ stats[2].success = 1 /\ stats[2].failure = 0

\* log_mention was called for the message: it returned, or it raised.
MentionCalls(m) ==
    Len(mentions[m]) + (IF herr[m] = "log_mention" THEN 1 ELSE 0)

\* send_response returned a channel to on_message.
ChannelResolved(m) == response_channel[m] # NoChannel

\* C15 -- Mention registration.  log_mention is called for a message
\* exactly when the gate reported a summon, the normalized message is a
\* ChannelMessage and channel resolution was not declined (send_response
\* returned a channel); it is called at most once per message; the channel
\* id it registers is the new thread's when a reply thread was created and
\* the origin channel's otherwise.
C15_MentionRegistration ==
    \A m \in Msgs :
        /\ MentionCalls(m) <= 1
        /\ MentionCalls(m) = 1
            <=> /\ gate[m].is_summon
                /\ pc[m] # "idle" /\ herr[m] # "normalize"
                /\ message[m].shape = "ChannelMessage"
                /\ ChannelResolved(m)
        /\ MentionCalls(m) = 1 => exit[m] # "declined"
        /\ \A i \in 1..Len(mentions[m]) :
              mentions[m][i] = IF threads[m] = 1
                               THEN ThreadId(m)
                               ELSE ChannelId(raw[m].chan)

\* A summon answered in a new thread registered the thread's id, not the
\* origin channel's.
C15_Witness ==
    \E m \in Msgs :
        /\ gate[m].is_summon
        /\ threads[m] = 1
        /\ mentions[m] = <<ThreadId(m)>>
        /\ ThreadId(m) # ChannelId(raw[m].chan)
        /\ exit[m] = "joined"

\* C16 -- Repetition-tracker keying.  Every log_message call and the
\* get_throttle_message_id lookup made while answering a message use the id
\* of the channel the inbound message arrived in, never the id of a reply
\* thread created for it, although the fragments go to the thread; so two
\* concurrent replies to messages of one origin channel, each in its own
\* new thread, write to the same tracker key.
C16_TrackerKeying ==
    /\ \A m \in Msgs :
          /\ \A i \in 1..Len(throttle[m]) :
                throttle[m][i] = ChannelId(raw[m].chan)
          /\ \A i \in 1..Len(tracker[m]) :
                tracker[m][i].key = ChannelId(raw[m].chan)
          /\ threads[m] = 1
               => /\ \A i \in 1..Len(throttle[m]) : throttle[m][i] # ThreadId(m)
                  /\ \A i \in 1..Len(tracker[m]) :
                        /\ tracker[m][i].key # ThreadId(m)
                        /\ \E j \in 1..Len(sent[m]) :
                              /\ sent[m][j].idx = tracker[m][i].idx
                              /\ sent[m][j].chan = ThreadId(m)
    /\ \A a \in Msgs, b \in Msgs :
          (a # b /\ threads[a] = 1 /\ threads[b] = 1
               /\ raw[a].chan = raw[b].chan)
          => /\ ThreadId(a) # ThreadId(b)
             /\ \A i \in 1..Len(tracker[a]), j \in 1..Len(tracker[b]) :
                   tracker[a][i].key = tracker[b][j].key

\* Two replies under way at once, each in its own new thread of the same
\* text channel, each with a fragment sent to its thread and logged to the
\* tracker under the one origin key.
C16_Witness ==
    /\ threads[1] = 1 /\ threads[2] = 1
    /\ raw[1].chan = raw[2].chan
    /\ TextRunning(1) /\ TextRunning(2)
    /\ Len(tracker[1]) = 1 /\ Len(tracker[2]) = 1
    /\ tracker[1][1].key = tracker[2][1].key
    /\ sent[1][1].chan = ThreadId(1) /\ sent[2][1].chan = ThreadId(2)
    /\ sent[1][1].chan # sent[2][1].chan

\* The decision gate answered, and accepted the message.
GateAccepted(m) ==
    /\ pc[m] # "idle"
    /\ herr[m] \notin {"normalize", "gate"}
    /\ gate[m].should_respond

\* C18 as stated: every message the gate accepted has had its typing scope
\* opened exactly once by the time on_message has ended, the scope is never
\* open after on_message has ended, and it is never opened for a message
\* the gate rejected.
C18_OpenedExactlyOnce ==
    \A m \in Msgs :
        /\ typing[m].opens <= 1
        /\ Handled(m) => ~typing[m].open
        /\ exit[m] = "rejected" => typing[m].opens = 0
        /\ (GateAccepted(m) /\ Handled(m)) => typing[m].opens = 1

\* C18 -- Typing indicator scope.  For a message the gate accepted the
\* scope is opened at most once: exactly once, unless entering it raises,
\* and then on_message ends with it never opened.  Once opened it stays
\* open at every await of on_message and is released on every exit path
\* (channel declined, completion after the join, any exception raised
\* inside it): it is never open after on_message has ended.  It is never
\* opened for a message the gate did not accept.
C18_TypingScope ==
    /\ [](\A m \in Msgs :
            /\ typing[m].opens <= 1
            /\ Handled(m) => ~typing[m].open
            /\ ~GateAccepted(m) => typing[m] = [open |-> FALSE, opens |-> 0]
            /\ (GateAccepted(m) /\ Handled(m))
                 => typing[m].opens = IF herr[m] = "typing" THEN 0 ELSE 1
            /\ typing[m].open
                 <=> pc[m] \in {"create_thread", "image_start", "join"})
    /\ [][\A m \in Msgs :
            /\ typing'[m].opens \in {typing[m].opens, typing[m].opens + 1}
            /\ typing'[m].opens = typing[m].opens + 1 => pc[m] = "typing"]_vars

\* An exception raised inside the scope (thread creation failed): the
\* scope had been opened once and is released.
C18_Witness ==
    \E m \in Msgs :
        /\ GateAccepted(m)
        /\ exit[m] = "caught" /\ herr[m] = "create_thread"
        /\ typing[m] = [open |-> FALSE, opens |-> 1]

\* The reply task of m has executed its first step.
TextBegun(m) == task[m].pc \notin {"none", "spawned"}

\* C19 -- Ordering under cooperative scheduling.  For a summon
\* ChannelMessage whose channel was resolved, the channel-id rewrite and
\* the log_mention call have both happened by the time the spawned reply
\* task executes its first step, hence before the throttle lookup, the
\* history fetch and any fragment sent: already in the state in which the
\* task is merely scheduled, and so in every state after its first step.
C19_MentionBeforeFirstStep ==
    /\ [](\A m \in Msgs :
            (TextSpawned(m) /\ gate[m].is_summon
                 /\ message[m].shape = "ChannelMessage")
            => /\ ChannelResolved(m)
               /\ MentionCalls(m) = 1
               /\ response_channel[m].is_thread
                    => /\ rewrites[m] = 1
                       /\ message[m].channel_id = response_channel[m].id
               /\ ~TextBegun(m)
                    => throttle[m] = <<>> /\ sent[m] = <<>>
                         /\ stats[m].arrived = 0)
    /\ [][\A m \in Msgs :
            (~TextBegun(m) /\ TextBegun(m)')
            => /\ task[m].pc = "spawned"
               /\ mentions'[m] = mentions[m]
               /\ message'[m] = message[m]
               /\ (gate[m].is_summon /\ message[m].shape = "ChannelMessage")
                    => MentionCalls(m) = 1]_vars

\* A summon answered in a new thread: the reply task has taken its first
\* step and nothing is sent yet, with the mention registered under the
\* thread's id and on_message still inside its scope.
C19_Witness ==
    \E m \in Msgs :
        /\ gate[m].is_summon /\ threads[m] = 1
        /\ task[m].pc = "prompt" /\ sent[m] = <<>>
        /\ mentions[m] = <<ThreadId(m)>>
        /\ message[m].channel_id = ThreadId(m)
        /\ pc[m] \in {"image_start", "join"}

\* The three counts of the streaming loop for one message.
PartCalls(m) == stats[m].parts
TrackerCalls(m) == Len(tracker[m])
FragmentsSent(m) == Len(sent[m])

\* C20 -- Counters of the streaming loop.  At every point while a message
\* is answered, log_response_part calls <= log_message calls <= fragments
\* sent, each adjacent pair differing by at most 1; when the response ends
\* in success the three are equal; when it ends in failure after k
\* fragments were sent, log_response_failure has been called once and
\* log_response_success not at all, and those k fragments stay sent:
\* no step ever takes a sent fragment back, and nothing is sent, logged or
\* counted after the failure.
C20_StreamingCounters ==
    /\ [](\A m \in Msgs :
            /\ PartCalls(m) <= TrackerCalls(m)
            /\ TrackerCalls(m) <= FragmentsSent(m)
            /\ TrackerCalls(m) - PartCalls(m) <= 1
            /\ FragmentsSent(m) - TrackerCalls(m) <= 1
            /\ TextRunning(m)
                 => PartCalls(m) = TrackerCalls(m)
                      /\ TrackerCalls(m) = FragmentsSent(m)
            /\ task[m].pc = "succeeded"
                 => /\ PartCalls(m) = TrackerCalls(m)
                    /\ TrackerCalls(m) = FragmentsSent(m)
                    /\ stats[m].success = 1 /\ stats[m].failure = 0
                    /\ stats[m].success_parts = FragmentsSent(m)
            /\ task[m].pc = "failed"
                 => stats[m].failure = 1 /\ stats[m].success = 0)
    /\ [][\A m \in Msgs :
            /\ Len(sent'[m]) >= Len(sent[m])
            /\ SubSeq(sent'[m], 1, Len(sent[m])) = sent[m]
            /\ task[m].pc = "failed"
                 => /\ sent'[m] = sent[m] /\ tracker'[m] = tracker[m]
                    /\ stats'[m] = stats[m] /\ task'[m] = task[m]]_vars

\* The reply failed when the second fragment, already sent, was being
\* logged to the tracker: two sent, one logged, one counted, failure
\* reported, and on_message has passed its join with both still sent.
C20_Witness ==
    \E m \in Msgs :
        /\ task[m].pc = "failed" /\ task[m].err = "log_message"
        /\ FragmentsSent(m) = 2 /\ TrackerCalls(m) = 1 /\ PartCalls(m) = 1
        /\ stats[m].failure = 1 /\ stats[m].success = 0
        /\ exit[m] = "joined"

====
